---- MODULE Spec2Model ----
(***************************************************************************)
(* Model of pkg/deploy/ec2/security_group_manager.go:                      *)
(* defaultSecurityGroupManager.Create / Update / Delete and the ingress    *)
(* rule translation buildIPPermissionInfos / buildIPPermissionInfo.        *)
(*                                                                         *)
(* The specifications share the variables:                                 *)
(*   TranslateSpec  the pure translation applied to bounded rule-sets;     *)
(*   Spec           one Create or Update call, collaborator by collaborator*)
(*   DeleteSpec     one Delete call on a discrete clock (unit: 1 second),  *)
(*   DeleteFairSpec DeleteSpec plus the fairness of clock and scheduler.   *)
(***************************************************************************)
EXTENDS Integers, Sequences, FiniteSets, TLC

\* ------------------------------------------------------------------ bounds
\* longest IPRanges / IPv6Range / UserIDGroupPairs list of an input rule
MaxListLen == 2
\* longest rule-set handed to the translation (TranslateSpec)
MaxRules == 2
\* longest rule-set of a desired spec handed to Create / Update (Spec)
MaxIngress == 2
\* longest time, in seconds, one provider delete-call may take
MaxLatency == 2

\* ------------------------------------------------------- program constants
defaultWaitSGDeletionPollInterval == 2
defaultWaitSGDeletionTimeout == 120

\* ----------------------------------------------------------------- inputs
\* A nil *int64 port.
NilPort == 0 - 1

\* The entries lists are cut from: element i of a list of a kind is Pool[i].
IPRangePool ==
    <<[CIDRIP |-> "0.0.0.0/0", Description |-> "all"],
      [CIDRIP |-> "10.0.0.0/8", Description |-> ""],
      [CIDRIP |-> "192.168.0.0/16", Description |-> "lan"]>>
IPv6RangePool ==
    <<[CIDRIPv6 |-> "::/0", Description |-> "all6"],
      [CIDRIPv6 |-> "fc00::/7", Description |-> ""],
      [CIDRIPv6 |-> "fe80::/10", Description |-> "ll"]>>
UserIDGroupPairPool ==
    <<[GroupID |-> "sg-peer1", Description |-> "peer"],
      [GroupID |-> "sg-peer2", Description |-> ""],
      [GroupID |-> "sg-peer3", Description |-> "p3"]>>

\* Lists of length 0..MaxListLen: the prefixes of the pool.
ListsOf(pool) == {SubSeq(pool, 1, n) : n \in 0..MaxListLen}

\* protocol, from-port, to-port of an input rule
Headers ==
    {[IPProtocol |-> "tcp", FromPort |-> 80, ToPort |-> 443],
     [IPProtocol |-> "-1", FromPort |-> NilPort, ToPort |-> NilPort]}

\* ec2model.IPPermission
IPPermissions ==
    {[IPProtocol |-> h.IPProtocol, FromPort |-> h.FromPort, ToPort |-> h.ToPort,
      IPRanges |-> a, IPv6Range |-> b, UserIDGroupPairs |-> c] :
        h \in Headers, a \in ListsOf(IPRangePool), b \in ListsOf(IPv6RangePool),
        c \in ListsOf(UserIDGroupPairPool)}

\* the sequences over S of length 0..n
SeqsUpTo(S, n) == UNION {[1..k -> S] : k \in 0..n}

\* ------------------------------------------------------------ translation
\* networking.NewIPPermissionLabelsForRawDescription
NewIPPermissionLabelsForRawDescription(description) ==
    [rawDescription |-> description]

\* networking.NewCIDRIPPermission / NewCIDRv6IPPermission / NewGroupIDIPPermission
NewCIDRIPPermission(protocol, fromPort, toPort, cidr, labels) ==
    [Kind |-> "CIDR", IpProtocol |-> protocol, FromPort |-> fromPort,
     ToPort |-> toPort, Target |-> cidr, Labels |-> labels]
NewCIDRv6IPPermission(protocol, fromPort, toPort, cidr, labels) ==
    [Kind |-> "CIDRv6", IpProtocol |-> protocol, FromPort |-> fromPort,
     ToPort |-> toPort, Target |-> cidr, Labels |-> labels]
NewGroupIDIPPermission(protocol, fromPort, toPort, groupID, labels) ==
    [Kind |-> "GroupID", IpProtocol |-> protocol, FromPort |-> fromPort,
     ToPort |-> toPort, Target |-> groupID, Labels |-> labels]

\* the zero value networking.IPPermissionInfo{}
ZeroIPPermissionInfo ==
    [Kind |-> "", IpProtocol |-> "", FromPort |-> NilPort, ToPort |-> NilPort,
     Target |-> "", Labels |-> [rawDescription |-> ""]]

ErrNil == "nil"
ErrInvalidIPPermission == "invalid ipPermission"

\* faulty variant: from-port and to-port handed over in the wrong order
buildIPPermissionInfo_swappedPorts(permission) ==
    LET protocol == permission.IPProtocol IN
    IF Len(permission.IPRanges) = 1 THEN
        [info |-> NewCIDRIPPermission(protocol, permission.ToPort, permission.FromPort,
                    permission.IPRanges[1].CIDRIP,
                    NewIPPermissionLabelsForRawDescription(permission.IPRanges[1].Description)),
         err |-> ErrNil]
    ELSE IF Len(permission.IPv6Range) = 1 THEN
        [info |-> NewCIDRv6IPPermission(protocol, permission.ToPort, permission.FromPort,
                    permission.IPv6Range[1].CIDRIPv6,
                    NewIPPermissionLabelsForRawDescription(permission.IPv6Range[1].Description)),
         err |-> ErrNil]
    ELSE IF Len(permission.UserIDGroupPairs) = 1 THEN
        [info |-> NewGroupIDIPPermission(protocol, permission.ToPort, permission.FromPort,
                    permission.UserIDGroupPairs[1].GroupID,
                    NewIPPermissionLabelsForRawDescription(permission.UserIDGroupPairs[1].Description)),
         err |-> ErrNil]
    ELSE [info |-> ZeroIPPermissionInfo, err |-> ErrInvalidIPPermission]

\* faulty variant: the IPv6 list is looked at before the IPv4 list
buildIPPermissionInfo_v6First(permission) ==
    LET protocol == permission.IPProtocol IN
    IF Len(permission.IPv6Range) = 1 THEN
        [info |-> NewCIDRv6IPPermission(protocol, permission.FromPort, permission.ToPort,
                    permission.IPv6Range[1].CIDRIPv6,
                    NewIPPermissionLabelsForRawDescription(permission.IPv6Range[1].Description)),
         err |-> ErrNil]
    ELSE IF Len(permission.IPRanges) = 1 THEN
        [info |-> NewCIDRIPPermission(protocol, permission.FromPort, permission.ToPort,
                    permission.IPRanges[1].CIDRIP,
                    NewIPPermissionLabelsForRawDescription(permission.IPRanges[1].Description)),
         err |-> ErrNil]
    ELSE IF Len(permission.UserIDGroupPairs) = 1 THEN
        [info |-> NewGroupIDIPPermission(protocol, permission.FromPort, permission.ToPort,
                    permission.UserIDGroupPairs[1].GroupID,
                    NewIPPermissionLabelsForRawDescription(permission.UserIDGroupPairs[1].Description)),
         err |-> ErrNil]
    ELSE [info |-> ZeroIPPermissionInfo, err |-> ErrInvalidIPPermission]

\* buildIPPermissionInfo: successive length checks, first singleton list wins
buildIPPermissionInfo(permission) ==
    LET protocol == permission.IPProtocol IN
    IF Len(permission.IPRanges) = 1 THEN
        [info |-> NewCIDRIPPermission(protocol, permission.FromPort, permission.ToPort,
                    permission.IPRanges[1].CIDRIP,
                    NewIPPermissionLabelsForRawDescription(permission.IPRanges[1].Description)),
         err |-> ErrNil]
    ELSE IF Len(permission.IPv6Range) = 1 THEN
        [info |-> NewCIDRv6IPPermission(protocol, permission.FromPort, permission.ToPort,
                    permission.IPv6Range[1].CIDRIPv6,
                    NewIPPermissionLabelsForRawDescription(permission.IPv6Range[1].Description)),
         err |-> ErrNil]
    ELSE IF Len(permission.UserIDGroupPairs) = 1 THEN
        [info |-> NewGroupIDIPPermission(protocol, permission.FromPort, permission.ToPort,
                    permission.UserIDGroupPairs[1].GroupID,
                    NewIPPermissionLabelsForRawDescription(permission.UserIDGroupPairs[1].Description)),
         err |-> ErrNil]
    ELSE [info |-> ZeroIPPermissionInfo, err |-> ErrInvalidIPPermission]

\* the loop of buildIPPermissionInfos from rule i on, acc the list built so far
RECURSIVE buildLoop(_, _, _)
buildLoop(permissions, i, acc) ==
    IF i > Len(permissions) THEN [infos |-> acc, isNil |-> FALSE, err |-> ErrNil]
    ELSE LET r == buildIPPermissionInfo(permissions[i]) IN
         IF r.err # ErrNil THEN [infos |-> <<>>, isNil |-> TRUE, err |-> r.err]
         ELSE buildLoop(permissions, i + 1, Append(acc, r.info))

\* buildIPPermissionInfos: every rule in input order, nil and the error on the first failure
buildIPPermissionInfos(permissions) ==
    buildLoop(permissions, 1, <<>>)

\* ------------------------------------------------- collaborators' values
\* tag maps: tracking tags of the stack/resource, and what callers pass in
TrackingTags == [cluster |-> "c1", stack |-> "ns/name"]
UserTagSets == {[env |-> "prod"], [cluster |-> "user", env |-> "dev"]}
CurrentTagSets == {[cluster |-> "c1"], [cluster |-> "old", legacy |-> "x"]}
\* tracking.Provider.LegacyTagKeys
LegacyTagKeys == {"legacy"}
NoTags == [k \in {} |-> ""]

\* tracking.Provider.ResourceTags: tracking tags merged over the user's, tracking wins
ResourceTags(userTags) ==
    [k \in DOMAIN TrackingTags \cup DOMAIN userTags |->
        IF k \in DOMAIN TrackingTags THEN TrackingTags[k] ELSE userTags[k]]

\* ids of existing groups (sdkSG.SecurityGroupID) and ids a create-call may answer
ExistingGroupIDs == {"sg-1", "sg-2"}
CreatedGroupIDs == {"sg-8", "sg-9"}

\* errors the collaborators may answer with
ErrCreate == "CreateSecurityGroup failed"
ErrReconcileTags == "ReconcileTags failed"
ErrReconcileIngress == "ReconcileIngress failed"

\* the desired rule-sets handed to Create / Update: rules of at most one entry per list
SpecIngressRules ==
    {p \in IPPermissions :
        /\ p.IPProtocol = "tcp"
        /\ Len(p.IPRanges) <= 1 /\ Len(p.IPv6Range) <= 1 /\ Len(p.UserIDGroupPairs) <= 1}

\* ---------------------------------------------------------------- state
VARIABLES
    tpc,        \* TranslateSpec: "input" before, "translated" after the call
    tRules,     \* TranslateSpec: the rule-set handed to buildIPPermissionInfos
    tResult,    \* TranslateSpec: what buildIPPermissionInfos returned
    op,         \* Spec: "none", "Create" or "Update"
    mpc,        \* Spec: position in Create/Update: the collaborator called next
    resSG,      \* Spec: the desired group: [Ingress, Tags]
    sdkSG,      \* Spec: the existing group handed to Update: [SecurityGroupID, Tags]
    permissionInfos, \* Spec: local of Create/Update
    sgID,       \* Spec: local of Create, the id the create-call answered
    calls,      \* Spec: the collaborator invocations so far, in order
    outcomes,   \* Spec: what each of these invocations answered (an error, nil or the new id)
    status,     \* Spec: the returned SecurityGroupStatus.GroupID ("" when empty)
    mErr,       \* Spec: the returned error
    dpc,        \* DeleteSpec: "idle", "calling", "waiting", "returned"
    now,        \* DeleteSpec: the clock, in seconds since Delete may be entered
    deadline,   \* DeleteSpec: when the context of context.WithTimeout expires
    ctxErr,     \* DeleteSpec: ctx.Err() of that context: "nil", "Canceled", "DeadlineExceeded"
    cancelledIn,\* DeleteSpec: dpc when the caller cancelled its context ("none": never)
    closePending, \* DeleteSpec: ctx.Done() is closed and the poll may not have seen it yet
    callStart,  \* DeleteSpec: when the delete-call in flight (or the last one) started
    nextTick,   \* DeleteSpec: when the poller's ticker ticks next
    deleteCalls,\* DeleteSpec: delete-calls issued
    responded,  \* DeleteSpec: delete-calls answered
    refusals,   \* DeleteSpec: delete-calls answered with DependencyViolation
    lastResponse, \* DeleteSpec: the last answer of the provider
    lastRefusalAt,\* DeleteSpec: when the last DependencyViolation was answered
    maxLatency, \* DeleteSpec: the longest a delete-call took so far, in seconds
    tickerStart,\* DeleteSpec: when PollUntil started the ticker
    gapShort,   \* DeleteSpec: some retry started less than a poll interval after the refusal before it
    gapLong,    \* DeleteSpec: some retry started more than a poll interval after the refusal before it
    offGrid,    \* DeleteSpec: some retry started off the ticker's grid
    stateSeq,   \* DeleteSpec: the states of the delete state machine gone through
    dResult     \* DeleteSpec: the error Delete returned

tvars == <<tpc, tRules, tResult>>
mvars == <<op, mpc, resSG, sdkSG, permissionInfos, sgID, calls, outcomes, status, mErr>>
dvars == <<dpc, now, deadline, ctxErr, cancelledIn, closePending, callStart, nextTick, deleteCalls,
           responded, refusals, lastResponse, lastRefusalAt, maxLatency, tickerStart, gapShort, gapLong, offGrid,
           stateSeq, dResult>>
vars == <<tvars, mvars, dvars>>

\* ------------------------------------------------------------- errors
NoError == [kind |-> "nil", code |-> ""]
Pending == [kind |-> "pending", code |-> ""]
\* wait.ErrWaitTimeout
ErrWaitTimeout == [kind |-> "error", code |-> "timed out waiting for the condition"]
AwsErr(code) == [kind |-> "awserr", code |-> code]
ErrDependencyViolation == AwsErr("DependencyViolation")
\* what one DeleteSecurityGroupWithContext call may answer
DeleteResponses ==
    {NoError, ErrDependencyViolation, AwsErr("InvalidGroup.NotFound"),
     [kind |-> "error", code |-> "DependencyViolation"]}

\* ------------------------------------------------------------ idle parts
NoResult == [infos |-> <<>>, isNil |-> TRUE, err |-> ErrNil]
NoResSG == [Ingress |-> <<>>, Tags |-> NoTags]
NoSdkSG == [SecurityGroupID |-> "", Tags |-> NoTags]

TranslateIdle == tpc = "off" /\ tRules = <<>> /\ tResult = NoResult
ManagerIdle ==
    /\ op = "none" /\ mpc = "off" /\ resSG = NoResSG /\ sdkSG = NoSdkSG
    /\ permissionInfos = <<>> /\ sgID = "" /\ calls = <<>> /\ outcomes = <<>>
    /\ status = "" /\ mErr = ErrNil
DeleteIdle ==
    /\ dpc = "off" /\ now = 0 /\ deadline = 0 /\ ctxErr = "nil" /\ cancelledIn = "none"
    /\ closePending = FALSE
    /\ callStart = 0 /\ nextTick = 0 /\ deleteCalls = 0 /\ responded = 0 /\ refusals = 0
    /\ lastResponse = Pending /\ lastRefusalAt = 0 /\ maxLatency = 0 /\ tickerStart = 0 /\ gapShort = FALSE /\ gapLong = FALSE
    /\ offGrid = FALSE /\ stateSeq = <<>> /\ dResult = Pending

\* ------------------------------------------------------- TranslateSpec
TranslateInit ==
    /\ tpc = "input"
    /\ \E k \in 0..MaxRules : tRules \in [1..k -> IPPermissions]
    /\ tResult = NoResult
    /\ ManagerIdle /\ DeleteIdle

Translate ==
    /\ tpc = "input"
    /\ tpc' = "translated"
    /\ tResult' = buildIPPermissionInfos(tRules)
    /\ UNCHANGED <<tRules, mvars, dvars>>

TranslateNext == Translate

TranslateSpec == TranslateInit /\ [][TranslateNext]_vars

\* ------------------------------------------------------- Spec: Create / Update
\* one collaborator invocation as the test double of the collaborator sees it
Call(fn, id, perms, tags, current, ignored) ==
    [fn |-> fn, sgID |-> id, permissions |-> perms, tags |-> tags,
     currentTags |-> current, ignoredKeys |-> ignored]

\* faulty variant: Update goes on to the create-call as Create does
NextCall_updateCreates(operation, at) ==
    IF at = "entry" THEN "createSG"
    ELSE IF at = "createSG" THEN "ingress"
    ELSE IF at = "tags" THEN "ingress"
    ELSE "returned"

\* faulty variant: Update reconciles the ingress before the tags
NextCall_updateIngressFirst(operation, at) ==
    IF operation = "Update"
    THEN (IF at = "entry" THEN "ingress" ELSE IF at = "ingress" THEN "tags" ELSE "returned")
    ELSE (IF at = "entry" THEN "createSG" ELSE IF at = "createSG" THEN "ingress"
          ELSE "returned")

\* faulty variant: a successful ingress reconciliation is run once more
NextCall_ingressAgain(operation, at) ==
    IF at = "entry" THEN (IF operation = "Create" THEN "createSG" ELSE "tags")
    ELSE "ingress"

\* The order of the collaborator calls of Create (create-call, ingress reconciliation)
\* and of Update (tag reconciliation, ingress reconciliation), each after the
\* previous one succeeded.
NextCall(operation, at) ==
    IF at = "entry" THEN (IF operation = "Create" THEN "createSG" ELSE "tags")
    ELSE IF at = "createSG" THEN "ingress"
    ELSE IF at = "tags" THEN "ingress"
    ELSE "returned"

Init ==
    /\ op = "none" /\ mpc = "idle" /\ resSG = NoResSG /\ sdkSG = NoSdkSG
    /\ permissionInfos = <<>> /\ sgID = "" /\ calls = <<>> /\ outcomes = <<>>
    /\ status = "" /\ mErr = ErrNil
    /\ TranslateIdle /\ DeleteIdle

\* faulty variant: the error is dropped and nil returned
ReturnError_nil(err) ==
    /\ mpc' = "returned"
    /\ status' = ""
    /\ mErr' = ErrNil

\* faulty variant: the status returned with an error carries the id obtained so far
ReturnError_withID(err) ==
    /\ mpc' = "returned"
    /\ status' = sgID
    /\ mErr' = err

\* every return of an error: return ec2model.SecurityGroupStatus{}, err
ReturnError(err) ==
    /\ mpc' = "returned"
    /\ status' = ""
    /\ mErr' = err

\* Create, lines 62-67: the tags, the translation, the return of its error
Create(res) ==
    /\ mpc = "idle"
    /\ op' = "Create"
    /\ resSG' = res
    /\ LET r == buildIPPermissionInfos(res.Ingress) IN
       IF r.err # ErrNil
       THEN /\ ReturnError(r.err)
            /\ UNCHANGED permissionInfos
       ELSE /\ permissionInfos' = r.infos
            /\ mpc' = NextCall("Create", "entry")
            /\ UNCHANGED <<status, mErr>>
    /\ UNCHANGED <<sdkSG, sgID, calls, outcomes, tvars, dvars>>

\* Create, lines 69-89: the create-call with the merged tags, its error or its id
CreateSecurityGroupWithContext ==
    /\ mpc = "createSG"
    /\ calls' = Append(calls, Call("CreateSecurityGroup", "", <<>>,
                                   ResourceTags(resSG.Tags), NoTags, {}))
    /\ \/ /\ outcomes' = Append(outcomes, ErrCreate)
          /\ ReturnError(ErrCreate)
          /\ UNCHANGED sgID
       \/ \E id \in CreatedGroupIDs :
            /\ outcomes' = Append(outcomes, id)
            /\ sgID' = id
            /\ mpc' = NextCall(op, "createSG")
            /\ UNCHANGED <<status, mErr>>
    /\ UNCHANGED <<op, resSG, sdkSG, permissionInfos, tvars, dvars>>

\* Update, lines 101-104: the translation, the return of its error
Update(res, sdk) ==
    /\ mpc = "idle"
    /\ op' = "Update"
    /\ resSG' = res
    /\ sdkSG' = sdk
    /\ LET r == buildIPPermissionInfos(res.Ingress) IN
       IF r.err # ErrNil
       THEN /\ ReturnError(r.err)
            /\ UNCHANGED permissionInfos
       ELSE /\ permissionInfos' = r.infos
            /\ mpc' = NextCall("Update", "entry")
            /\ UNCHANGED <<status, mErr>>
    /\ UNCHANGED <<sgID, calls, outcomes, tvars, dvars>>

\* faulty variant: only the tags that differ from the current ones are handed over
ReconcileTagsArgs_diff(res, sdk) ==
    LET desired == ResourceTags(res.Tags)
        changed == {k \in DOMAIN desired :
                        k \notin DOMAIN sdk.Tags \/ sdk.Tags[k] # desired[k]}
    IN  [tags |-> [k \in changed |-> desired[k]],
         currentTags |-> sdk.Tags,
         ignoredKeys |-> LegacyTagKeys]

\* updateSDKSecurityGroupGroupWithTags: the arguments of ReconcileTags after the id
ReconcileTagsArgs(res, sdk) ==
    [tags |-> ResourceTags(res.Tags),
     currentTags |-> sdk.Tags,
     ignoredKeys |-> LegacyTagKeys]

\* Update, lines 105-107 and updateSDKSecurityGroupGroupWithTags
ReconcileTags ==
    /\ mpc = "tags"
    /\ LET a == ReconcileTagsArgs(resSG, sdkSG) IN
       calls' = Append(calls, Call("ReconcileTags", sdkSG.SecurityGroupID, <<>>,
                                   a.tags, a.currentTags, a.ignoredKeys))
    /\ \/ /\ outcomes' = Append(outcomes, ErrReconcileTags)
          /\ ReturnError(ErrReconcileTags)
       \/ /\ outcomes' = Append(outcomes, ErrNil)
          /\ mpc' = NextCall(op, "tags")
          /\ UNCHANGED <<status, mErr>>
    /\ UNCHANGED <<op, resSG, sdkSG, permissionInfos, sgID, tvars, dvars>>

\* faulty variant: Create reconciles the ingress of the group of the sdkSG argument
ReconcileIngressID_existing(operation, created, existing) == existing

\* the id handed to ReconcileIngress: sgID in Create, sdkSG.SecurityGroupID in Update
ReconcileIngressID(operation, created, existing) ==
    IF operation = "Create" THEN created ELSE existing

\* Create, lines 91-97, and Update, lines 108-113
ReconcileIngress ==
    /\ mpc = "ingress"
    /\ LET id == ReconcileIngressID(op, sgID, sdkSG.SecurityGroupID) IN
       /\ calls' = Append(calls, Call("ReconcileIngress", id, permissionInfos,
                                      NoTags, NoTags, {}))
       /\ \/ /\ outcomes' = Append(outcomes, ErrReconcileIngress)
             /\ ReturnError(ErrReconcileIngress)
          \/ /\ outcomes' = Append(outcomes, ErrNil)
             /\ mpc' = NextCall(op, "ingress")
             /\ status' = id
             /\ mErr' = ErrNil
    /\ UNCHANGED <<op, resSG, sdkSG, permissionInfos, sgID, tvars, dvars>>

DesiredGroups ==
    {[Ingress |-> i, Tags |-> t] :
        i \in SeqsUpTo(SpecIngressRules, MaxIngress), t \in UserTagSets}
ExistingGroups ==
    {[SecurityGroupID |-> id, Tags |-> t] : id \in ExistingGroupIDs, t \in CurrentTagSets}

Next ==
    \/ \E res \in DesiredGroups : Create(res)
    \/ CreateSecurityGroupWithContext
    \/ \E res \in DesiredGroups, sdk \in ExistingGroups : Update(res, sdk)
    \/ ReconcileTags
    \/ ReconcileIngress

Spec == Init /\ [][Next]_vars

\* ------------------------------------------------------- DeleteSpec: Delete
\* the fields the constructor sets from the defaults
waitSGDeletionPollInterval == defaultWaitSGDeletionPollInterval
waitSGDeletionTimeout == defaultWaitSGDeletionTimeout

\* the clock stops here
ClockCap == waitSGDeletionTimeout + waitSGDeletionPollInterval + MaxLatency + 1

\* faulty variant: no error is taken for the transient one
IsDependencyViolation_never(err) == FALSE

\* faulty variant: the error code is not looked at, every provider (awserr) error is retried
IsDependencyViolation_anyAwsErr(err) == err.kind = "awserr"

\* line 127: awsErr, ok := err.(awserr.Error); ok && awsErr.Code() == "DependencyViolation"
IsDependencyViolation(err) ==
    err.kind = "awserr" /\ err.code = "DependencyViolation"

\* faulty variant: a successful delete-call is not reported as done
condition_neverDone(resp) ==
    IF resp # NoError
    THEN IF IsDependencyViolation(resp)
         THEN [done |-> FALSE, err |-> NoError]
         ELSE [done |-> FALSE, err |-> resp]
    ELSE [done |-> FALSE, err |-> NoError]

\* lines 125-133: the condition function, applied to the answer of the delete-call
condition(resp) ==
    IF resp # NoError
    THEN IF IsDependencyViolation(resp)
         THEN [done |-> FALSE, err |-> NoError]
         ELSE [done |-> FALSE, err |-> resp]
    ELSE [done |-> TRUE, err |-> NoError]

\* faulty variant: the poll is handed a channel that is never closed
StopChClosed_never(err) == FALSE

\* line 133: the stop channel ctx.Done() is closed once the context has an error
StopChClosed(err) == err # "nil"

\* faulty variant: the ticker is restarted by every refusal
NextTicks_fromRefusal(start, t) == {t + waitSGDeletionPollInterval}

\* The ticks of the poller's ticker that can come next when a retry that started on
\* the tick at `start` is refused at `t`: ticks during the call are dropped; a tick
\* at the very moment of the refusal is dropped or delivered.
NextTicks(start, t) ==
    LET m == (t - start) \div waitSGDeletionPollInterval IN
    {start + (m + 1) * waitSGDeletionPollInterval}
        \cup (IF t > start /\ (t - start) % waitSGDeletionPollInterval = 0 THEN {t} ELSE {})

\* line 121 is outside the condition function: a retry at t leaves the deadline d alone
DeadlineAtRetry(d, t) == d

\* line 122, defer cancel(): on every return the context of line 121 is cancelled;
\* a context that already has an error keeps it
DeferredCancel(err) == IF err = "nil" THEN "Canceled" ELSE err

DeleteInit ==
    /\ dpc = "idle" /\ now = 0 /\ deadline = 0 /\ ctxErr = "nil" /\ cancelledIn = "none"
    /\ closePending = FALSE
    /\ callStart = 0 /\ nextTick = 0 /\ deleteCalls = 0 /\ responded = 0 /\ refusals = 0
    /\ lastResponse = Pending /\ lastRefusalAt = 0 /\ maxLatency = 0 /\ tickerStart = 0 /\ gapShort = FALSE /\ gapLong = FALSE
    /\ offGrid = FALSE /\ stateSeq = <<>> /\ dResult = Pending
    /\ TranslateIdle /\ ManagerIdle

\* lines 116-126: context.WithTimeout on the caller's context, then PollImmediateUntil
\* runs the condition at once, so the first delete-call is issued on entry
Delete ==
    /\ dpc = "idle"
    /\ dpc' = "calling"
    /\ deadline' = now + waitSGDeletionTimeout
    /\ deleteCalls' = 1
    /\ callStart' = now
    /\ stateSeq' = <<"Requesting">>
    /\ UNCHANGED <<now, ctxErr, cancelledIn, closePending, nextTick, responded, refusals,
                   lastResponse, lastRefusalAt, maxLatency, tickerStart, gapShort, gapLong, offGrid, dResult, tvars, mvars>>

\* the caller cancels its context; the derived context takes the first error only
Cancel ==
    /\ dpc \in {"idle", "calling", "waiting"}
    /\ cancelledIn = "none"
    /\ cancelledIn' = dpc
    /\ ctxErr' = IF ctxErr = "nil" THEN "Canceled" ELSE ctxErr
    /\ closePending' = (closePending \/ ctxErr = "nil")
    /\ UNCHANGED <<dpc, now, deadline, callStart, nextTick, deleteCalls, responded,
                   refusals, lastResponse, lastRefusalAt, maxLatency, tickerStart, gapShort, gapLong, offGrid,
                   stateSeq, dResult, tvars, mvars>>

\* the timer of context.WithTimeout fires
DeadlineExceeded ==
    /\ dpc \in {"calling", "waiting"}
    /\ ctxErr = "nil"
    /\ now >= deadline
    /\ ctxErr' = "DeadlineExceeded"
    /\ closePending' = TRUE
    /\ UNCHANGED <<dpc, now, deadline, cancelledIn, callStart, nextTick, deleteCalls,
                   responded, refusals, lastResponse, lastRefusalAt, maxLatency, tickerStart, gapShort, gapLong,
                   offGrid, stateSeq, dResult, tvars, mvars>>

\* a second passes: not past a timer that is due, nor while the poll can go on
Advance ==
    /\ now < ClockCap
    /\ \/ dpc = "calling" /\ now - callStart < MaxLatency
       \/ dpc = "waiting" /\ ~StopChClosed(ctxErr) /\ now < nextTick
    /\ ~(ctxErr = "nil" /\ now >= deadline)
    /\ now' = now + 1
    /\ closePending' = FALSE
    /\ UNCHANGED <<dpc, deadline, ctxErr, cancelledIn, callStart, nextTick, deleteCalls,
                   responded, refusals, lastResponse, lastRefusalAt, maxLatency, tickerStart, gapShort, gapLong,
                   offGrid, stateSeq, dResult, tvars, mvars>>

\* the delete-call in flight answers and the poll goes on from the answer; a return
\* of Delete runs the deferred cancel
DeleteSecurityGroupReturns(resp) ==
    /\ dpc = "calling"
    /\ responded' = responded + 1
    /\ lastResponse' = resp
    /\ maxLatency' = IF now - callStart > maxLatency THEN now - callStart ELSE maxLatency
    /\ LET c == condition(resp) IN
       IF c.err # NoError THEN
            /\ dpc' = "returned" /\ dResult' = c.err
            /\ stateSeq' = Append(stateSeq, "Failed")
            /\ UNCHANGED <<refusals, lastRefusalAt, nextTick, tickerStart>>
       ELSE IF c.done THEN
            /\ dpc' = "returned" /\ dResult' = NoError
            /\ stateSeq' = Append(stateSeq, "Deleted")
            /\ UNCHANGED <<refusals, lastRefusalAt, nextTick, tickerStart>>
       ELSE /\ refusals' = refusals + 1
            /\ lastRefusalAt' = now
            /\ IF deleteCalls = 1 THEN
                    \* PollImmediateUntil after its immediate run: the stop channel
                    \* first, else PollUntil starts the ticker
                    IF StopChClosed(ctxErr) THEN
                        /\ dpc' = "returned" /\ dResult' = ErrWaitTimeout
                        /\ stateSeq' = stateSeq \o <<"Blocked", "TimedOut">>
                        /\ UNCHANGED <<nextTick, tickerStart>>
                    ELSE
                        /\ dpc' = "waiting" /\ tickerStart' = now
                        /\ nextTick' = now + waitSGDeletionPollInterval
                        /\ stateSeq' = Append(stateSeq, "Blocked")
                        /\ UNCHANGED dResult
               ELSE /\ dpc' = "waiting"
                    /\ nextTick' \in NextTicks(callStart, now)
                    /\ UNCHANGED tickerStart
                    /\ stateSeq' = Append(stateSeq, "Blocked")
                    /\ UNCHANGED dResult
    /\ ctxErr' = IF dpc' = "returned" THEN DeferredCancel(ctxErr) ELSE ctxErr
    /\ closePending' = (dpc' # "returned" /\ closePending)
    /\ UNCHANGED <<now, deadline, cancelledIn, callStart, deleteCalls, gapShort,
                   gapLong, offGrid, tvars, mvars>>

\* WaitFor receives a tick: the next delete-call. PollUntil has WaitFor watch a
\* channel that a goroutine of its own closes after it saw ctx.Done() closed, so a
\* tick that is due at the moment ctx.Done() is closed is still received, or the
\* closed channel is; once time has passed, or a delete-call was made, or Delete has
\* returned, the close has been passed on.
Tick ==
    /\ dpc = "waiting"
    /\ ~StopChClosed(ctxErr) \/ closePending
    /\ now = nextTick
    /\ dpc' = "calling"
    /\ deleteCalls' = deleteCalls + 1
    /\ callStart' = now
    /\ gapShort' = (gapShort \/ now - lastRefusalAt < waitSGDeletionPollInterval)
    /\ gapLong' = (gapLong \/ now - lastRefusalAt > waitSGDeletionPollInterval)
    /\ offGrid' = (offGrid \/ (now - tickerStart) % waitSGDeletionPollInterval # 0)
    /\ stateSeq' = Append(stateSeq, "Requesting")
    /\ deadline' = DeadlineAtRetry(deadline, now)
    /\ closePending' = FALSE
    /\ UNCHANGED <<now, ctxErr, cancelledIn, nextTick, tickerStart, responded,
                   refusals, lastResponse, lastRefusalAt, maxLatency, dResult, tvars, mvars>>

\* WaitFor finds the stop channel closed: wait.ErrWaitTimeout, whoever closed it
Stopped ==
    /\ dpc = "waiting"
    /\ StopChClosed(ctxErr)
    /\ dpc' = "returned"
    /\ dResult' = ErrWaitTimeout
    /\ stateSeq' = Append(stateSeq, "TimedOut")
    /\ ctxErr' = DeferredCancel(ctxErr)
    /\ closePending' = FALSE
    /\ UNCHANGED <<now, deadline, cancelledIn, callStart, nextTick, deleteCalls,
                   responded, refusals, lastResponse, lastRefusalAt, maxLatency, tickerStart, gapShort, gapLong,
                   offGrid, tvars, mvars>>

DeleteNext ==
    \/ Delete
    \/ Cancel
    \/ DeadlineExceeded
    \/ Advance
    \/ \E resp \in DeleteResponses : DeleteSecurityGroupReturns(resp)
    \/ Tick
    \/ Stopped

DeleteSpec == DeleteInit /\ [][DeleteNext]_vars

\* The caller enters Delete, the clock runs, timers fire, the provider answers and
\* the poller is scheduled.
DeleteFairSpec ==
    /\ DeleteSpec
    /\ WF_vars(Delete)
    /\ WF_vars(DeadlineExceeded)
    /\ WF_vars(Advance)
    /\ WF_vars(\E resp \in DeleteResponses : DeleteSecurityGroupReturns(resp))
    /\ WF_vars(Tick)
    /\ WF_vars(Stopped)

\* =================================================================== claims
Returned == dpc = "returned"
\* every delete-call answered so far was refused with DependencyViolation
AllRefused == responded = refusals
\* the provider errors that are not the transient one
OtherErrors == DeleteResponses \ {NoError, ErrDependencyViolation}
\* no delete-call took a poll interval or longer
Prompt == maxLatency < waitSGDeletionPollInterval
MinCalls == waitSGDeletionTimeout \div waitSGDeletionPollInterval

\* C1 as claimed: when every delete-call is refused with DependencyViolation and the
\* caller never cancels, Delete returns the timeout error after at least
\* floor(deadline / pollInterval) delete-calls.
C1_AsClaimed ==
    (Returned /\ AllRefused /\ cancelledIn = "none")
        => (dResult = ErrWaitTimeout /\ deleteCalls >= MinCalls)

\* C1 amended: the same, for delete-calls that each answer in less than one poll
\* interval (a slower call makes the poller drop ticks).
C1_TimeoutAfterMinCalls ==
    (Returned /\ AllRefused /\ cancelledIn = "none" /\ Prompt)
        => (dResult = ErrWaitTimeout /\ deleteCalls >= MinCalls
            /\ ctxErr = "DeadlineExceeded" /\ stateSeq[Len(stateSeq)] = "TimedOut")

C1_Witness ==
    /\ Returned /\ AllRefused /\ cancelledIn = "none" /\ Prompt
    /\ maxLatency > 0
    /\ dResult = ErrWaitTimeout /\ deleteCalls = MinCalls

\* C2 as claimed: a caller's cancellation while Delete waits between retries is not
\* answered with the error Delete returns when its own deadline elapses.
C2_AsClaimed ==
    (Returned /\ cancelledIn = "waiting" /\ ctxErr = "Canceled")
        => dResult # ErrWaitTimeout

\* the kinds of target populated in a rule
PopulatedKinds(p) ==
    (IF Len(p.IPRanges) > 0 THEN {"CIDR"} ELSE {})
        \cup (IF Len(p.IPv6Range) > 0 THEN {"CIDRv6"} ELSE {})
        \cup (IF Len(p.UserIDGroupPairs) > 0 THEN {"GroupID"} ELSE {})

\* C3 as claimed: a rule-set with a rule in which zero or more than one kind of
\* target is populated is translated to nil and a validation error.
C3_AsClaimed ==
    (tpc = "translated"
        /\ \E i \in 1..Len(tRules) : Cardinality(PopulatedKinds(tRules[i])) # 1)
        => (tResult.err = ErrInvalidIPPermission /\ tResult.isNil)

\* exactly one list of the rule is populated, with exactly one entry
OneSingleton(p) ==
    /\ Cardinality(PopulatedKinds(p)) = 1
    /\ Len(p.IPRanges) + Len(p.IPv6Range) + Len(p.UserIDGroupPairs) = 1
TheKind(p) == CHOOSE k \in PopulatedKinds(p) : TRUE
TheTarget(p) ==
    IF Len(p.IPRanges) > 0 THEN p.IPRanges[1].CIDRIP
    ELSE IF Len(p.IPv6Range) > 0 THEN p.IPv6Range[1].CIDRIPv6
    ELSE p.UserIDGroupPairs[1].GroupID

\* C4: a rule-set of rules that each populate exactly one list with exactly one
\* entry is translated without error to one permission per rule, in input order,
\* each with the rule's protocol, ports, kind of target and target.
C4_SingletonRulesRoundTrip ==
    (tpc = "translated" /\ \A i \in 1..Len(tRules) : OneSingleton(tRules[i]))
        => /\ tResult.err = ErrNil
           /\ ~tResult.isNil
           /\ Len(tResult.infos) = Len(tRules)
           /\ \A i \in 1..Len(tRules) :
                /\ tResult.infos[i].IpProtocol = tRules[i].IPProtocol
                /\ tResult.infos[i].FromPort = tRules[i].FromPort
                /\ tResult.infos[i].ToPort = tRules[i].ToPort
                /\ tResult.infos[i].Kind = TheKind(tRules[i])
                /\ tResult.infos[i].Target = TheTarget(tRules[i])

C4_Witness ==
    /\ tpc = "translated" /\ Len(tRules) = 2
    /\ \A i \in 1..2 : OneSingleton(tRules[i])
    /\ TheKind(tRules[1]) = "GroupID" /\ TheKind(tRules[2]) = "CIDR"
    /\ tRules[1].IPProtocol # tRules[2].IPProtocol
    /\ Len(tResult.infos) = 2

\* Requesting, Blocked, k times
RECURSIVE Refused(_)
Refused(k) == IF k = 0 THEN <<>> ELSE <<"Requesting", "Blocked">> \o Refused(k - 1)

\* what C5 says but for the time between a refusal and the retry after it
C5_SuccessAfterRefusals ==
    /\ dResult = NoError
    /\ deleteCalls = refusals + 1
    /\ stateSeq = Refused(refusals) \o <<"Requesting", "Deleted">>

\* C5 as claimed: k refusals and then a success: success is returned after exactly
\* k+1 delete-calls through (Requesting, Blocked)^k, Requesting, Deleted, each
\* retry one poll interval after the refusal before it.
C5_AsClaimed ==
    /\ dpc # "idle" => deleteCalls >= 1
    /\ (Returned /\ lastResponse = NoError)
        => (C5_SuccessAfterRefusals /\ ~gapShort /\ ~gapLong)

\* C5 amended: each retry starts on a tick of the ticker that runs from the first
\* refusal on, at most one poll interval after the refusal before it, and exactly
\* one poll interval after it when the delete-calls take no time.
C5_RetriesOnTicks ==
    /\ dpc # "idle" => deleteCalls >= 1
    /\ (Returned /\ lastResponse = NoError)
        => /\ C5_SuccessAfterRefusals
           /\ ~offGrid /\ ~gapLong
           /\ (maxLatency = 0 => ~gapShort)

C5_Witness ==
    /\ Returned /\ lastResponse = NoError /\ dResult = NoError
    /\ refusals = 2 /\ deleteCalls = 3 /\ maxLatency = 0
    /\ now = 2 * waitSGDeletionPollInterval

\* C6: an error of a delete-call other than DependencyViolation ends Delete at
\* once: that error is returned and no delete-call follows.
C6_OtherErrorFailsAtOnce ==
    lastResponse \in OtherErrors
        => /\ Returned
           /\ dResult = lastResponse
           /\ deleteCalls = responded
           /\ stateSeq[Len(stateSeq)] = "Failed"

C6_Witness ==
    /\ Returned /\ lastResponse = AwsErr("InvalidGroup.NotFound")
    /\ dResult = lastResponse
    /\ refusals = 1 /\ cancelledIn = "none" /\ now < deadline
    /\ ctxErr = DeferredCancel("nil")

\* C7: every Delete returns, whatever the provider answers and whenever the caller
\* cancels: it does not stay in the cycle of Requesting and Blocked.
C7_DeleteTerminates == <>Returned

C7_Witness ==
    /\ Returned /\ refusals >= MinCalls /\ dResult = ErrWaitTimeout

\* C8: Delete never returns the DependencyViolation error; after a refusal it ends
\* with success, another error of the provider, or the timeout error once the
\* context is done (deadline or cancellation).
C8_TransientNeverReturned ==
    Returned =>
        /\ dResult # ErrDependencyViolation
        /\ refusals >= 1 =>
             /\ dResult \in {NoError, ErrWaitTimeout} \cup OtherErrors
             /\ dResult = ErrWaitTimeout =>
                    (ctxErr = "DeadlineExceeded" \/ cancelledIn # "none")

C8_Witness ==
    /\ Returned /\ refusals >= 1 /\ lastResponse = ErrDependencyViolation
    /\ dResult = ErrWaitTimeout

CallsOf(fn) == {i \in 1..Len(calls) : calls[i].fn = fn}

\* C9: Update issues no create-call.
C9_UpdateNeverCreates ==
    op = "Update" => CallsOf("CreateSecurityGroup") = {}

C9_Witness ==
    /\ op = "Update" /\ mpc = "returned" /\ mErr = ErrNil
    /\ Len(calls) = 2 /\ Len(resSG.Ingress) = 2

\* C10 as claimed: when a rule of the desired spec is invalid (not exactly one kind
\* of target populated), Create and Update return the validation error and have
\* called no collaborator.
C10_AsClaimed ==
    (op # "none" /\ \E i \in 1..Len(resSG.Ingress) :
                        Cardinality(PopulatedKinds(resSG.Ingress[i])) # 1)
        => (mpc = "returned" /\ mErr = ErrInvalidIPPermission /\ calls = <<>>)

\* the collaborator invocations whose answer was an error
FailedCalls == {i \in 1..Len(outcomes) :
                    outcomes[i] \in {ErrCreate, ErrReconcileTags, ErrReconcileIngress}}

\* C11: in Create the ingress reconciliation comes only after a create-call that
\* succeeded and gets the id that call answered (and the translated permissions);
\* after a failed create-call it is not invoked; on success the status has that id.
C11_IngressAfterCreateWithItsID ==
    op = "Create" =>
        /\ \A i \in CallsOf("ReconcileIngress") :
                /\ i = 2
                /\ calls[1].fn = "CreateSecurityGroup"
                /\ outcomes[1] \in CreatedGroupIDs
                /\ calls[i].sgID = outcomes[1]
                /\ calls[i].permissions = buildIPPermissionInfos(resSG.Ingress).infos
        /\ (Len(outcomes) >= 1 /\ outcomes[1] = ErrCreate)
                => (mpc = "returned" /\ CallsOf("ReconcileIngress") = {})
        /\ (mpc = "returned" /\ mErr = ErrNil)
                => (Len(calls) = 2 /\ status = outcomes[1] /\ status \in CreatedGroupIDs)

C11_Witness ==
    /\ op = "Create" /\ mpc = "returned" /\ mErr = ErrNil
    /\ Len(calls) = 2 /\ calls[2].fn = "ReconcileIngress" /\ calls[2].sgID = "sg-9"
    /\ status = "sg-9" /\ Len(resSG.Ingress) = 2

\* C12: when the create-call succeeds and the ingress reconciliation fails, Create
\* returns that error and has called nothing but these two: no delete-call undoes
\* the group that was created.
C12_NoRollback ==
    (op = "Create" /\ Len(outcomes) = 2 /\ outcomes[1] \in CreatedGroupIDs
        /\ outcomes[2] = ErrReconcileIngress)
        => /\ mpc = "returned"
           /\ mErr = ErrReconcileIngress
           /\ Len(calls) = 2
           /\ calls[1].fn = "CreateSecurityGroup" /\ calls[2].fn = "ReconcileIngress"
           /\ CallsOf("DeleteSecurityGroup") = {}

C12_Witness ==
    /\ op = "Create" /\ mpc = "returned" /\ mErr = ErrReconcileIngress
    /\ outcomes = <<"sg-8", ErrReconcileIngress>> /\ CallsOf("DeleteSecurityGroup") = {}

\* C13: in Update the tag reconciliation comes before the ingress reconciliation,
\* both on the id of the existing group; after a failed tag reconciliation the
\* ingress reconciliation is not invoked and the tag error is returned; on success
\* the status has the existing id.
C13_TagsThenIngressOnExistingID ==
    op = "Update" =>
        /\ \A i \in 1..Len(calls) :
                /\ calls[i].sgID = sdkSG.SecurityGroupID
                /\ calls[i].fn = (IF i = 1 THEN "ReconcileTags" ELSE "ReconcileIngress")
        /\ Len(calls) <= 2
        /\ (Len(outcomes) >= 1 /\ outcomes[1] = ErrReconcileTags)
                => (mpc = "returned" /\ mErr = ErrReconcileTags /\ Len(calls) = 1)
        /\ (mpc = "returned" /\ mErr = ErrNil)
                => (Len(calls) = 2 /\ status = sdkSG.SecurityGroupID
                    /\ status \in ExistingGroupIDs)

C13_Witness ==
    /\ op = "Update" /\ mpc = "returned" /\ mErr = ErrReconcileTags
    /\ Len(calls) = 1 /\ calls[1].sgID = "sg-2" /\ Len(resSG.Ingress) = 1

\* C14 as claimed: the deadline is the time of entry plus the timeout and no attempt
\* moves it; no delete-call is started after it or once it has elapsed; a Delete
\* that is blocked when the deadline has elapsed ends in TimedOut with the timeout
\* error.
C14_AsClaimed ==
    [][/\ dpc # "idle" => deadline' = deadline
       /\ dpc' # "idle" => (deadline' = waitSGDeletionTimeout /\ callStart' <= deadline')
       /\ ctxErr = "DeadlineExceeded" => deleteCalls' = deleteCalls
       /\ (dpc = "waiting" /\ ctxErr = "DeadlineExceeded" /\ dpc' # dpc)
            => /\ dpc' = "returned"
               /\ dResult' = ErrWaitTimeout
               /\ stateSeq'[Len(stateSeq')] = "TimedOut"]_vars

\* C15 as claimed: once the caller's context is cancelled no delete-call is started,
\* the first one included, and Delete does not wait for a tick.
C15_AsClaimed ==
    [][cancelledIn # "none" =>
            /\ deleteCalls' = deleteCalls
            /\ dpc = "waiting" => (now' = now /\ dpc' = "returned")]_vars

\* C16: Create and Update invoke every collaborator at most once (Create: the
\* create-call and the ingress reconciliation; Update: the tag and the ingress
\* reconciliation), and after the first collaborator error the operation has
\* returned that error and no collaborator is invoked again.
C16_NoRetryOutsideDelete ==
    /\ \A fn \in {"CreateSecurityGroup", "ReconcileTags", "ReconcileIngress"} :
            Cardinality(CallsOf(fn)) <= 1
    /\ op = "Create" => CallsOf("ReconcileTags") = {}
    /\ op = "Update" => CallsOf("CreateSecurityGroup") = {}
    /\ Len(outcomes) = Len(calls)
    /\ \A i \in FailedCalls :
            /\ i = Len(calls)
            /\ mpc = "returned"
            /\ mErr = outcomes[i]
    /\ (mpc = "returned" /\ mErr = ErrInvalidIPPermission) => calls = <<>>

C16_Witness ==
    /\ op = "Update" /\ mpc = "returned"
    /\ outcomes = <<ErrNil, ErrReconcileIngress>> /\ mErr = ErrReconcileIngress
    /\ Cardinality(CallsOf("ReconcileIngress")) = 1

\* C17: the one tag reconciliation of Update gets the whole merged tag set (every
\* tracking tag, and every tag of the resource that no tracking tag overrides),
\* whatever the current tags are; the tags of the existing group as the current
\* tags; the legacy keys as the keys to ignore. No other call touches tags.
C17_FullTagSetNoDiff ==
    /\ Cardinality(CallsOf("ReconcileTags")) <= 1
    /\ \A i \in CallsOf("ReconcileTags") :
            /\ op = "Update"
            /\ calls[i].tags = ResourceTags(resSG.Tags)
            /\ DOMAIN calls[i].tags = DOMAIN TrackingTags \cup DOMAIN resSG.Tags
            /\ \A k \in DOMAIN TrackingTags : calls[i].tags[k] = TrackingTags[k]
            /\ \A k \in DOMAIN resSG.Tags \ DOMAIN TrackingTags :
                    calls[i].tags[k] = resSG.Tags[k]
            /\ calls[i].currentTags = sdkSG.Tags
            /\ calls[i].ignoredKeys = LegacyTagKeys
    /\ \A i \in 1..Len(calls) :
            calls[i].fn \in {"CreateSecurityGroup", "ReconcileTags", "ReconcileIngress"}
    /\ op = "Update" => \A i \in 1..Len(calls) :
            calls[i].fn \in {"ReconcileTags", "ReconcileIngress"}

\* the current tags already hold a tracking tag with its desired value
C17_Witness ==
    /\ op = "Update" /\ CallsOf("ReconcileTags") = {1}
    /\ sdkSG.Tags = [cluster |-> "c1"]
    /\ calls[1].tags = [cluster |-> "c1", stack |-> "ns/name", env |-> "dev"]
    /\ calls[1].currentTags = [cluster |-> "c1"]
    /\ calls[1].ignoredKeys = {"legacy"}

\* C19: the returned status has an id exactly when the operation returns no error,
\* and then every collaborator call has succeeded; with any error the status is
\* empty, also after a create-call that answered an id.
C19_StatusOnlyOnSuccess ==
    /\ mpc # "returned" => status = ""
    /\ mpc = "returned" =>
            /\ (status # "") <=> (mErr = ErrNil)
            /\ mErr = ErrNil =>
                    /\ FailedCalls = {}
                    /\ Len(calls) = 2
                    /\ status = (IF op = "Create" THEN outcomes[1]
                                 ELSE sdkSG.SecurityGroupID)
            /\ mErr # ErrNil =>
                    /\ status = ""
                    /\ mErr \in {ErrInvalidIPPermission, ErrCreate,
                                 ErrReconcileTags, ErrReconcileIngress}

C19_Witness ==
    /\ op = "Create" /\ mpc = "returned" /\ mErr = ErrReconcileIngress
    /\ sgID = "sg-9" /\ outcomes[1] = "sg-9" /\ status = ""

\* C18: the kind of a translated rule follows the lengths of its lists in a fixed
\* order: IPv4 list of length 1 gives an IPv4 CIDR permission whatever the other
\* lists hold; else IPv6 list of length 1 gives an IPv6 CIDR permission whatever the
\* peer-group list holds; else peer-group list of length 1 gives a peer-group
\* permission; the translation fails only for a rule with no list of length 1.
NoListOfOne(p) ==
    Len(p.IPRanges) # 1 /\ Len(p.IPv6Range) # 1 /\ Len(p.UserIDGroupPairs) # 1

C18_KindByPrecedence ==
    tpc = "translated" =>
        /\ (tResult.err # ErrNil) <=> (\E i \in 1..Len(tRules) : NoListOfOne(tRules[i]))
        /\ tResult.err # ErrNil => tResult.err = ErrInvalidIPPermission
        /\ tResult.err = ErrNil =>
            /\ Len(tResult.infos) = Len(tRules)
            /\ \A i \in 1..Len(tRules) :
                LET p == tRules[i]
                    r == tResult.infos[i]
                IN  /\ Len(p.IPRanges) = 1
                            => (r.Kind = "CIDR" /\ r.Target = p.IPRanges[1].CIDRIP)
                    /\ (Len(p.IPRanges) # 1 /\ Len(p.IPv6Range) = 1)
                            => (r.Kind = "CIDRv6" /\ r.Target = p.IPv6Range[1].CIDRIPv6)
                    /\ (Len(p.IPRanges) # 1 /\ Len(p.IPv6Range) # 1
                            /\ Len(p.UserIDGroupPairs) = 1)
                            => (r.Kind = "GroupID"
                                /\ r.Target = p.UserIDGroupPairs[1].GroupID)

\* rule 1 has an IPv4 and an IPv6 list of length 1, rule 2 an IPv4 list of length 2
\* and the other two of length 1
C18_Witness ==
    /\ tpc = "translated" /\ Len(tRules) = 2 /\ tResult.err = ErrNil
    /\ Len(tRules[1].IPRanges) = 1 /\ Len(tRules[1].IPv6Range) = 1
    /\ tResult.infos[1].Kind = "CIDR"
    /\ Len(tRules[2].IPRanges) = 2 /\ Len(tRules[2].IPv6Range) = 1
    /\ Len(tRules[2].UserIDGroupPairs) = 1
    /\ tResult.infos[2].Kind = "CIDRv6"

====
